---------------------------- MODULE Spec2Model ----------------------------
(***************************************************************************)
(* Route planner (src/src/App.tsx): the waypoint store, the selection,     *)
(* the canvas mouse handlers, the edit panel, route import, the heading    *)
(* resolver, the path sampler, the proximity projector, the code emitter   *)
(* and the simulation clock.                                               *)
(*                                                                         *)
(* Number representation.  The code works on IEEE doubles; the model works *)
(* on integers in fixed units chosen so that the coordinate transform is   *)
(* exact:                                                                  *)
(*   field coordinates   tenths of an inch (the code rounds to 0.1 in)     *)
(*   screen coordinates  1/UnitsPerPixel of a pixel (1 tenth of an inch is *)
(*                       1932/1440 px = 161/120 px)                        *)
(*   angles              integer degrees; a rotation the code holds in     *)
(*                       radians r is held as r * 180 / pi                 *)
(*   progress            hundredths (the progress slider's resolution)     *)
(*   time                whole milliseconds                                *)
(* Math.sqrt is the integer square root and Math.atan2 the angle floored   *)
(* to a whole degree; both are exact on the axis-aligned cases.            *)
(***************************************************************************)
EXTENDS Integers, Sequences, FiniteSets, TLC

VARIABLES points, nextId, image, selectedId, draggingId, hoveredId,
          hoveredPathProgress, lastHoveredProgress, alerts, lastOp, steps,
          heldIds, heldSinceImport,
          isRunning, robotProgress, showBot, rafRef, frames, now, errors,
          budget, resumedFrom, published

vars == <<points, nextId, image, selectedId, draggingId, hoveredId,
          hoveredPathProgress, lastHoveredProgress, alerts, lastOp, steps,
          heldIds, heldSinceImport,
          isRunning, robotProgress, showBot, rafRef, frames, now, errors,
          budget, resumedFrom, published>>

\* the simulation clock: the running flag, the published progress, the
\* "show robot" flag, rafRef.current, the animation frame callbacks the
\* browser holds (each with the startTime its closure captured) and
\* performance.now()
clock == <<isRunning, robotProgress, showBot, rafRef, frames, now>>

\* history of the session, kept for the statements about ids: the ids any
\* waypoint has held since the session began, and since the latest import
history == <<heldIds, heldSinceImport>>

(***************************************************************************)
(* Bounds of the exploration.                                              *)
(***************************************************************************)
MaxPoints == 3
MaxSteps == 4
MaxClockSteps == 6
MaxRunSetup == 4
MaxRunSteps == 16

(***************************************************************************)
(* Program constants.                                                      *)
(***************************************************************************)
fieldPixelSize == 1932
fieldInchSize == 144
ImageWidth == 2000
POINT_RADIUS == 30
RoundScale == 10
DefaultTimeout == 1000
DefaultSpeed == 70
ThetaMax == 360
ThetaStep == 5
TimeoutStep == 100
SpeedMin == 1
SpeedMax == 127
SpeedStep == 5
FieldMin == -72
FieldStep == 1
FullTurn == 360
QuarterTurn == 90

(***************************************************************************)
(* Units.                                                                  *)
(***************************************************************************)
RECURSIVE GCD(_, _)
GCD(a, b) == IF b = 0 THEN a ELSE GCD(b, a % b)

\* tenths of an inch across the field, and the screen unit that makes one
\* tenth of an inch a whole number of units
FieldTenths == fieldInchSize * RoundScale
UnitsPerPixel == FieldTenths \div GCD(fieldPixelSize, FieldTenths)
UnitsPerTenth == fieldPixelSize \div GCD(fieldPixelSize, FieldTenths)

Abs(a) == IF a < 0 THEN -a ELSE a
Max2(a, b) == IF a >= b THEN a ELSE b
Min2(a, b) == IF a <= b THEN a ELSE b

\* Math.round(n / d) for d > 0: the nearest integer, a half rounds up
MathRound(n, d) == (2 * n + d) \div (2 * d)

\* null is the empty set, a value v is {v}
Null == {}
Some(v) == {v}
ValueOf(s) == CHOOSE v \in s : TRUE

(***************************************************************************)
(* Arithmetic of the geometry code.  Differences larger than 30000 units   *)
(* (250 px) are divided by a common factor before they are squared, so     *)
(* that every intermediate value fits the checker's integers.              *)
(***************************************************************************)
Coarsen(m) == (m \div 30000) + 1

RECURSIVE IsqrtIter(_, _)
IsqrtIter(n, x) ==
    LET y == (x + (n \div x)) \div 2
    IN  IF y >= x THEN x ELSE IsqrtIter(n, y)

\* a first estimate of the root that is not below it
IsqrtStart(n) ==
    IF n < 1024 THEN 32
    ELSE IF n < 1048576 THEN 1024
    ELSE IF n < 1073741824 THEN 32768
    ELSE 46341

\* Math.sqrt on a non-negative integer
Isqrt(n) == IF n = 0 THEN 0 ELSE IsqrtIter(n, IsqrtStart(n))

\* Math.sqrt(dx * dx + dy * dy), Math.hypot(dx, dy)
Hypot(dx, dy) ==
    LET s == Coarsen(Max2(Abs(dx), Abs(dy)))
        cx == Abs(dx) \div s
        cy == Abs(dy) \div s
    IN  s * Isqrt(cx * cx + cy * cy)

\* floor(a * b / c) for b >= 0, c > 0; the fraction b / c is reduced first
MulDiv(a, b, c) ==
    LET g == GCD(c, b)
        rb == b \div g
        rc == c \div g
    IN  IF Abs(a) <= 2000000000 \div Max2(1, rb)
        THEN (a * rb) \div rc
        ELSE LET sa == Coarsen(Abs(a))
                 sb == Coarsen(Max2(rb, rc))
             IN  sa * (((a \div sa) * (rb \div sb)) \div Max2(1, rc \div sb))

\* 1000 * tan(k degrees), k = 1 .. 45
TanTable == <<17, 35, 52, 70, 87, 105, 123, 141, 158, 176, 194, 213, 231, 249, 268, 287, 306, 325, 344, 364, 384, 404, 424, 445, 466, 488, 510, 532, 554, 577, 601, 625, 649, 675, 700, 727, 754, 781, 810, 839, 869, 900, 933, 966, 1000>>

\* the angle in 0 .. 45 whose tangent is opp / adj, for 0 <= opp <= adj, adj > 0
AtanOctant(opp, adj) ==
    LET ks == {k \in 1..45 : TanTable[k] * adj <= 1000 * opp}
    IN  IF ks = {} THEN 0 ELSE CHOOSE k \in ks : \A j \in ks : j <= k

\* the angle in 0 .. 90 of the vector (ax, ay), ax >= 0, ay >= 0, not both 0
AtanQuadrant(ay, ax) ==
    IF ay <= ax THEN AtanOctant(ay, ax) ELSE QuarterTurn - AtanOctant(ax, ay)

\* Math.atan2(dy, dx) in degrees, in (-180, 180]; atan2(0, 0) = 0
Atan2Deg(dy, dx) ==
    LET s == Coarsen(Max2(Abs(dx), Abs(dy)))
        ax == Abs(dx) \div s
        ay == Abs(dy) \div s
        q == IF ax = 0 /\ ay = 0 THEN 0 ELSE AtanQuadrant(ay, ax)
    IN  IF dx = 0 /\ dy = 0 THEN 0
        ELSE IF dx >= 0 /\ dy >= 0 THEN q
        ELSE IF dx < 0 /\ dy >= 0 THEN 2 * QuarterTurn - q
        ELSE IF dx >= 0 THEN -q
        ELSE q - 2 * QuarterTurn

(***************************************************************************)
(* Coordinate transform (pixelToFieldCoords, fieldToPixelCoords).          *)
(* An image is a record of its pixel width and height; NoImage is the      *)
(* state before the first image has loaded.                                *)
(***************************************************************************)
NoImage == [loaded |-> FALSE, width |-> 0, height |-> 0]
FieldImage == [loaded |-> TRUE, width |-> ImageWidth, height |-> ImageWidth]

\* centerX = centerY = wallPadding + fieldPixelSize / 2, in screen units
CenterOf(img) ==
    LET wallPadding2 == img.width - fieldPixelSize
    IN  ((wallPadding2 + fieldPixelSize) * UnitsPerPixel) \div 2

\* the field coordinates of a pixel, in 1/UnitsPerTenth of a tenth of an
\* inch (the quotient by pixelsPerInch is left to the caller's rounding)
pixelToFieldCoords(pixelX, pixelY) ==
    IF ~image.loaded THEN [fieldX |-> 0, fieldY |-> 0]
    ELSE [fieldX |-> pixelX - CenterOf(image),
          fieldY |-> CenterOf(image) - pixelY]

\* Math.round(field * 10) / 10 of a value pixelToFieldCoords returned
RoundField(f) == MathRound(f, UnitsPerTenth)

\* centerX + fieldX * pixelsPerInch and centerY - fieldY * pixelsPerInch,
\* the field coordinate given as pixelToFieldCoords returns it
fieldUnitsToPixelSameY(unitsX, unitsY) ==
    IF ~image.loaded THEN [x |-> 0, y |-> 0]
    ELSE [x |-> CenterOf(image) + unitsX, y |-> CenterOf(image) + unitsY]
fieldUnitsToPixel(unitsX, unitsY) ==
    IF ~image.loaded THEN [x |-> 0, y |-> 0]
    ELSE [x |-> CenterOf(image) + unitsX, y |-> CenterOf(image) - unitsY]

\* the pixel of a field coordinate given in tenths of an inch
fieldToPixelCoords(fieldX, fieldY) ==
    fieldUnitsToPixel(fieldX * UnitsPerTenth, fieldY * UnitsPerTenth)

(***************************************************************************)
(* Waypoints.  points is the code's array; Pt(i) is points[i], 0-based.    *)
(***************************************************************************)
Pt(i) == points[i + 1]
NumPoints == Len(points)
Indices == 0 .. (NumPoints - 1)

\* points.findIndex(p => p.id === id): the first index, -1 if there is none
FindIndex(id) ==
    LET hit == {i \in Indices : Pt(i).id = id}
    IN  IF hit = {} THEN -1 ELSE CHOOSE i \in hit : \A j \in hit : i <= j

\* points.find(p => Math.hypot(p.x - x, p.y - y) < POINT_RADIUS)
InRadius(p, x, y) ==
    LET r == POINT_RADIUS * UnitsPerPixel
        dx == Abs(p.x - x)
        dy == Abs(p.y - y)
    IN  dx < r /\ dy < r /\ dx * dx + dy * dy < r * r

PointAt(x, y) ==
    LET hit == {i \in Indices : InRadius(Pt(i), x, y)}
    IN  IF hit = {} THEN -1 ELSE CHOOSE i \in hit : \A j \in hit : i <= j

\* points.map(p => p.id === id ? f[p] : p), f a function on the waypoints
MapId(id, f) == [i \in 1..Len(points) |->
                   IF points[i].id = id THEN f[points[i]] ELSE points[i]]
Waypoints == {points[i] : i \in 1..Len(points)}

(***************************************************************************)
(* Heading resolver.                                                       *)
(***************************************************************************)
RECURSIVE NormalizeUp(_)
NormalizeUp(d) == IF d < 0 THEN NormalizeUp(d + FullTurn) ELSE d

RECURSIVE NormalizeDown(_)
NormalizeDown(d) == IF d >= FullTurn THEN NormalizeDown(d - FullTurn) ELSE d

\* while (degrees < 0) degrees += 360; while (degrees >= 360) degrees -= 360
NormalizeDegrees(d) == NormalizeDown(NormalizeUp(d))

\* the heading from one screen position to the next: 0 = up, 90 = right
SegmentThetaNoOffset(dx, dy) == NormalizeDegrees(Atan2Deg(dy, dx))
SegmentTheta(dx, dy) == NormalizeDegrees(Atan2Deg(dy, dx) + QuarterTurn)

getEffectiveTheta(index) ==
    IF index < NumPoints - 1
    THEN SegmentTheta(Pt(index + 1).x - Pt(index).x,
                      Pt(index + 1).y - Pt(index).y)
    ELSE Pt(index).theta

(***************************************************************************)
(* Path sampler.  progress is in hundredths.  The result is null (no robot *)
(* to draw) or a position and a rotation; nan marks a position the code    *)
(* computes as NaN (a division of zero by a segment length of zero), and   *)
(* segment is the index of the segment the loop stopped on (the number of  *)
(* segments when the loop ran to its end).                                 *)
(***************************************************************************)
ProgressScale == 100

SegDx(i) == Pt(i + 1).x - Pt(i).x
SegDy(i) == Pt(i + 1).y - Pt(i).y
SegmentLength(i) == Hypot(SegDx(i), SegDy(i))

\* the summed length of the segments before segment i
RECURSIVE DistanceBefore(_)
DistanceBefore(i) ==
    IF i <= 0 THEN 0 ELSE DistanceBefore(i - 1) + SegmentLength(i - 1)

TotalLength == DistanceBefore(NumPoints - 1)

\* return null
NoRobotAtOrigin == [robot |-> TRUE, nan |-> FALSE, x |-> 0, y |-> 0,
                    rotation |-> 0, segment |-> 0]
NoRobot == [robot |-> FALSE, nan |-> FALSE, x |-> 0, y |-> 0,
            rotation |-> 0, segment |-> 0]

getRobotPositionAndRotation(progress) ==
    IF NumPoints < 2 THEN NoRobot
    ELSE IF TotalLength = 0 THEN NoRobot
    ELSE
      LET \* currentDistance + segmentLengths[i] >= targetDistance
          reached == {i \in 0 .. (NumPoints - 2) :
                        (DistanceBefore(i) + SegmentLength(i)) * ProgressScale
                            >= TotalLength * progress}
      IN  IF reached # {}
          THEN LET i == CHOOSE k \in reached : \A j \in reached : k <= j
                   len == SegmentLength(i)
                   \* (targetDistance - currentDistance) * ProgressScale
                   into == TotalLength * progress
                             - DistanceBefore(i) * ProgressScale
               IN  IF len = 0
                   THEN [robot |-> TRUE, nan |-> TRUE, x |-> 0, y |-> 0,
                         rotation |-> Atan2Deg(SegDy(i), SegDx(i)),
                         segment |-> i]
                   ELSE [robot |-> TRUE, nan |-> FALSE,
                         x |-> Pt(i).x
                                 + MulDiv(SegDx(i), into, len * ProgressScale),
                         y |-> Pt(i).y
                                 + MulDiv(SegDy(i), into, len * ProgressScale),
                         rotation |-> Atan2Deg(SegDy(i), SegDx(i)),
                         segment |-> i]
          ELSE [robot |-> TRUE, nan |-> FALSE,
                x |-> Pt(NumPoints - 1).x, y |-> Pt(NumPoints - 1).y,
                rotation |-> Pt(NumPoints - 1).theta - QuarterTurn,
                segment |-> NumPoints - 1]

(***************************************************************************)
(* Proximity projector.  The result is Null or Some(progress), progress in *)
(* hundredths (floored).                                                   *)
(***************************************************************************)
HoverThreshold == 50

\* the foot of the perpendicular from (mouseX, mouseY) on segment i, its
\* distance to the mouse and its distance along the segment; valid is FALSE
\* when lenSq is 0 (t is NaN and the comparison with closestDistance fails)
ClosestOnSegment(i, mouseX, mouseY) ==
    LET dx == SegDx(i)
        dy == SegDy(i)
        mx == mouseX - Pt(i).x
        my == mouseY - Pt(i).y
        s == Coarsen(Max2(Max2(Abs(dx), Abs(dy)), Max2(Abs(mx), Abs(my))))
        lenSq == Max2(1, (dx \div s) * (dx \div s) + (dy \div s) * (dy \div s))
        dot == (mx \div s) * (dx \div s) + (my \div s) * (dy \div s)
        \* t = Math.max(0, Math.min(1, dot / lenSq)), kept as t * lenSq
        t == Max2(0, Min2(lenSq, dot))
        closestX == Pt(i).x + MulDiv(dx, t, lenSq)
        closestY == Pt(i).y + MulDiv(dy, t, lenSq)
    IN  [valid |-> ~(dx = 0 /\ dy = 0),
         distance |-> Hypot(mouseX - closestX, mouseY - closestY),
         along |-> MulDiv(SegmentLength(i), t, lenSq)]

\* closestDistance < 50
WithinThresholdAlways(distance) == TRUE
WithinThreshold(distance) == distance < HoverThreshold * UnitsPerPixel

getClosestPointOnPath(mouseX, mouseY) ==
    IF NumPoints < 2 THEN Null
    ELSE
      LET closest == [i \in 0 .. (NumPoints - 2) |->
                        ClosestOnSegment(i, mouseX, mouseY)]
          segs == {i \in 0 .. (NumPoints - 2) : closest[i].valid}
      IN  IF segs = {} THEN Null
          ELSE
            LET \* distance < closestDistance: the first of the nearest wins
                best == CHOOSE i \in segs :
                          \A j \in segs :
                             \/ closest[i].distance < closest[j].distance
                             \/ /\ closest[i].distance = closest[j].distance
                                /\ i <= j
                pathDistance == DistanceBefore(best) + closest[best].along
                closestProgress ==
                    IF TotalLength > 0
                    THEN MulDiv(pathDistance, ProgressScale, TotalLength)
                    ELSE 0
            IN  IF WithinThreshold(closest[best].distance)
                THEN Some(closestProgress)
                ELSE Null

(***************************************************************************)
(* Code emitter.  A line's text is held as the sequence of the pieces the  *)
(* template string is built from: the call's name and its arguments, the   *)
(* coordinates and the heading in tenths (Math.round(v * 10) / 10).        *)
(* pointIndex is Some(number) or Null.                                     *)
(***************************************************************************)
TurnTimeout == 500

\* the set-pose line with the heading the waypoint stores
SetPoseLineStored(index) ==
    [line |-> << "chassis.setPose", MathRound(Pt(index).fieldX, 1),
                 MathRound(Pt(index).fieldY, 1),
                 MathRound(Pt(index).theta * RoundScale, 1) >>,
     pointIndex |-> Some(index)]
SetPoseLine(index) ==
    [line |-> << "chassis.setPose", MathRound(Pt(index).fieldX, 1),
                 MathRound(Pt(index).fieldY, 1),
                 MathRound(getEffectiveTheta(0) * RoundScale, 1) >>,
     pointIndex |-> Some(index)]

SeparatorLine == [line |-> << "\n" >>, pointIndex |-> Some(-1)]

TurnToPointTimeoutOwn(index) == Pt(index).timeout
TurnToPointTimeout(index) == TurnTimeout

TurnToPointLine(index) ==
    [line |-> << "chassis.turnToPoint", MathRound(Pt(index).fieldX, 1),
                 MathRound(Pt(index).fieldY, 1), TurnToPointTimeout(index),
                 Pt(index).forwards, Pt(index).speed >>,
     pointIndex |-> Some(index)]

MoveToPointLine(index) ==
    [line |-> << "chassis.moveToPoint", MathRound(Pt(index).fieldX, 1),
                 MathRound(Pt(index).fieldY, 1), Pt(index).timeout,
                 Pt(index).forwards, Pt(index).speed >>,
     pointIndex |-> Some(index)]

\* the lines points.forEach has pushed for the waypoints before index
RECURSIVE LinesBefore(_)
LinesBefore(index) ==
    IF index <= 0 THEN << >>
    ELSE LinesBefore(index - 1)
           \o (IF index - 1 = 0 THEN << SetPoseLine(0) >>
               ELSE << SeparatorLine, TurnToPointLine(index - 1),
                       MoveToPointLine(index - 1) >>)

generatedCodeLines == IF NumPoints = 0 THEN << >> ELSE LinesBefore(NumPoints)

(***************************************************************************)
(* Simulation duration, in milliseconds.                                   *)
(***************************************************************************)
\* the term the loop adds for i: points[i + 1].timeout
DurationTermOwn(pts, i) == pts[i + 1].timeout
DurationTerm(pts, i) == pts[i + 2].timeout

\* totalMs after the loop has run for 0 .. i - 1
RECURSIVE DurationBefore(_, _)
DurationBefore(pts, i) ==
    IF i <= 0 THEN 0
    ELSE DurationBefore(pts, i - 1) + DurationTerm(pts, i - 1)

TotalDurationOf(pts) ==
    IF Len(pts) < 2 THEN 0 ELSE DurationBefore(pts, Len(pts) - 1)

getTotalSimulationDuration == TotalDurationOf(points)

(***************************************************************************)
(* Inputs of the exploration: canvas positions of the mouse, the values    *)
(* typed into the edit panel and the files offered to the route import.    *)
(***************************************************************************)
MouseCenter == (ImageWidth * UnitsPerPixel) \div 2
GridStep == 30 * UnitsPerTenth

MousePositions ==
    { [x |-> MouseCenter, y |-> MouseCenter],
      [x |-> MouseCenter + GridStep, y |-> MouseCenter],
      [x |-> MouseCenter, y |-> MouseCenter + GridStep],
      [x |-> MouseCenter + UnitsPerPixel, y |-> MouseCenter],
      [x |-> 10 * UnitsPerPixel, y |-> 10 * UnitsPerPixel] }

\* the canvas takes the image's size when the image loads; before that it
\* has the size of a canvas element without width and height attributes
CanvasDefaultWidth == 300
CanvasDefaultHeight == 150

OnCanvas(m) ==
    IF image.loaded
    THEN m.x >= 0 /\ m.x <= image.width * UnitsPerPixel
         /\ m.y >= 0 /\ m.y <= image.height * UnitsPerPixel
    ELSE m.x >= 0 /\ m.x <= CanvasDefaultWidth * UnitsPerPixel
         /\ m.y >= 0 /\ m.y <= CanvasDefaultHeight * UnitsPerPixel

MkPoint(x, y, fieldX, fieldY, id, theta) ==
    [x |-> x, y |-> y, fieldX |-> fieldX, fieldY |-> fieldY, id |-> id,
     theta |-> theta, timeout |-> DefaultTimeout, speed |-> DefaultSpeed,
     forwards |-> TRUE]

\* a waypoint as an exported file holds it: at a grid position of the field
FilePoint(gx, gy, id, theta) ==
    MkPoint(MouseCenter + gx * GridStep, MouseCenter - gy * GridStep,
            gx * 30, gy * 30, id, theta)

\* the text of an imported file: malformed JSON, JSON whose root is not an
\* array, or an array of waypoint records
ImportPayloads ==
    { [kind |-> "malformed", pts |-> << >>],
      [kind |-> "nonArray", pts |-> << >>],
      [kind |-> "array", pts |-> << >>],
      [kind |-> "array", pts |-> << FilePoint(0, 0, 0, 355) >>],
      [kind |-> "array", pts |-> << FilePoint(0, 0, 0, 0),
                                    FilePoint(0, 0, 1, 0),
                                    FilePoint(1, 0, 2, 0) >>],
      [kind |-> "array", pts |-> << FilePoint(0, 0, 4, 0),
                                    FilePoint(0, -1, 4, 90) >>] }

\* what the user does to a NumberInput: type a number, press - or press +
TypedInput(n) == [kind |-> "typed", num |-> n]
MinusInput == [kind |-> "minus", num |-> 0]
PlusInput == [kind |-> "plus", num |-> 0]
Buttons == {MinusInput, PlusInput}

FieldInputs == Buttons \union {TypedInput(-1000), TypedInput(30)}
ThetaInputs == Buttons \union {TypedInput(400), TypedInput(90)}
TimeoutInputs == Buttons \union {TypedInput(-5)}
SpeedInputs == Buttons \union {TypedInput(200)}

(***************************************************************************)
(* NumberInput: the argument of the onChange call an input makes, Null     *)
(* when it makes none.  max is Null when the max property is not given.    *)
(***************************************************************************)
\* the input without the clamp of a typed number to max
NumberInputNoMax(value, min, max, step, disableButtons, input) ==
    IF disableButtons THEN Null
    ELSE IF input.kind = "typed"
    THEN Some(IF input.num < min THEN min ELSE input.num)
    ELSE IF input.kind = "minus"
    THEN Some(Max2(min, value - step))
    ELSE Some(IF max # Null THEN Min2(ValueOf(max), value + step)
              ELSE value + step)
NumberInput(value, min, max, step, disableButtons, input) ==
    IF disableButtons THEN Null
    ELSE IF input.kind = "typed"
    THEN LET low == IF input.num < min THEN min ELSE input.num
         IN  Some(IF max # Null /\ low > ValueOf(max) THEN ValueOf(max) ELSE low)
    ELSE IF input.kind = "minus"
    THEN Some(Max2(min, value - step))
    ELSE Some(IF max # Null THEN Min2(ValueOf(max), value + step)
              ELSE value + step)

(***************************************************************************)
(* State.                                                                  *)
(***************************************************************************)
Mounted ==
    /\ points = << >>
    /\ nextId = 0
    /\ image = NoImage
    /\ selectedId = Null
    /\ draggingId = Null
    /\ hoveredId = Null
    /\ hoveredPathProgress = Null
    /\ lastHoveredProgress = 0
    /\ alerts = 0
    /\ lastOp = "init"
    /\ steps = 0
    /\ heldIds = {}
    /\ heldSinceImport = {}
    /\ isRunning = FALSE
    /\ robotProgress = 0
    /\ showBot = TRUE
    /\ rafRef = Null
    /\ frames = {}
    /\ now = 0
    /\ errors = 0
    /\ resumedFrom = Null
    /\ published = Null

Init ==
    /\ Mounted
    /\ budget = MaxSteps

\* one user or browser event: the exploration stops after budget of them
Event(name) ==
    /\ steps < budget
    /\ steps' = steps + 1
    /\ lastOp' = name
    /\ budget' = budget

(***************************************************************************)
(* The simulation effect, useEffect(..., [isRunning, points]): React runs  *)
(* it after a render in which isRunning or points changed, the cleanup of  *)
(* the previous run first.  running and pts are the values of that render. *)
(***************************************************************************)
\* cancelAnimationFrame(rafRef.current) on the callbacks the browser holds
CancelKeepsFrame(pending, ref) == pending
Cancel(pending, ref) == {f \in pending : f.id \notin ref}

\* the handle requestAnimationFrame returns: one no pending callback has
NewFrameId(pending) ==
    CHOOSE n \in 1 .. (Cardinality(pending) + 1) :
       /\ n \notin {f.id : f \in pending}
       /\ \A k \in 1 .. (n - 1) : k \in {f.id : f \in pending}

SimulationEffect(running, pts, held) ==
    LET pending == Cancel(held, rafRef)
    IN  IF ~running
        THEN /\ isRunning' = FALSE
             /\ frames' = pending
             /\ rafRef' = Null
        ELSE IF TotalDurationOf(pts) = 0
        THEN \* setIsRunning(false): the effect runs again, not running
             /\ isRunning' = FALSE
             /\ frames' = pending
             /\ rafRef' = Null
        ELSE /\ isRunning' = TRUE
             /\ frames' = pending \union {[id |-> NewFrameId(pending),
                                           startTime |-> now]}
             /\ rafRef' = Some(NewFrameId(pending))

\* what follows a handler: called tells whether it called setPoints
AfterSetPoints(called) ==
    /\ IF called THEN SimulationEffect(isRunning, points', frames)
       ELSE UNCHANGED <<isRunning, rafRef, frames>>
    /\ UNCHANGED <<robotProgress, showBot, now, errors, resumedFrom,
                   published>>

\* img.onload of the image effect
LoadImage ==
    /\ Event("loadImage")
    /\ image' = FieldImage
    /\ UNCHANGED <<points, nextId, selectedId, draggingId, hoveredId,
                   hoveredPathProgress, lastHoveredProgress, alerts,
                   history>>
    /\ AfterSetPoints(FALSE)


handleCanvasClick(m) ==
    /\ Event(IF PointAt(m.x, m.y) # -1 THEN "select" ELSE "place")
    /\ OnCanvas(m)
    /\ LET clicked == PointAt(m.x, m.y)
           f == pixelToFieldCoords(m.x, m.y)
           fieldXR == RoundField(f.fieldX)
           fieldYR == RoundField(f.fieldY)
           px == fieldToPixelCoords(fieldXR, fieldYR)
           newPoint == MkPoint(px.x, px.y, fieldXR, fieldYR, nextId, 0)
       IN  IF clicked # -1
           THEN /\ selectedId' = Some(Pt(clicked).id)
                /\ UNCHANGED <<points, nextId, history>>
           ELSE /\ NumPoints < MaxPoints
                /\ points' = Append(points, newPoint)
                /\ nextId' = nextId + 1
                /\ selectedId' = Some(nextId)
                /\ heldIds' = heldIds \union {nextId}
                /\ heldSinceImport' = heldSinceImport \union {nextId}
    /\ UNCHANGED <<image, draggingId, hoveredId, hoveredPathProgress,
                   lastHoveredProgress, alerts>>
    /\ AfterSetPoints(PointAt(m.x, m.y) = -1)


handleMouseDown(m) ==
    /\ Event("mouseDown")
    /\ OnCanvas(m)
    /\ LET clicked == PointAt(m.x, m.y)
       IN  draggingId' = IF clicked # -1 THEN Some(Pt(clicked).id)
                         ELSE draggingId
    /\ UNCHANGED <<points, nextId, image, selectedId, hoveredId,
                   hoveredPathProgress, lastHoveredProgress, alerts,
                   history>>
    /\ AfterSetPoints(FALSE)


handleMouseMove(m) ==
    /\ Event("mouseMove")
    /\ OnCanvas(m)
    /\ \E pathHover \in {getClosestPointOnPath(m.x, m.y)} :
       LET hovered == PointAt(m.x, m.y)
           f == pixelToFieldCoords(m.x, m.y)
           fieldXRounded == RoundField(f.fieldX)
           fieldYRounded == RoundField(f.fieldY)
           moved == [p \in Waypoints |->
                       [p EXCEPT !.x = m.x, !.y = m.y,
                                 !.fieldX = fieldXRounded,
                                 !.fieldY = fieldYRounded]]
       IN  /\ hoveredId' = IF hovered # -1 THEN Some(Pt(hovered).id) ELSE Null
           /\ hoveredPathProgress' = pathHover
           /\ lastHoveredProgress' = IF pathHover # Null THEN ValueOf(pathHover)
                                     ELSE lastHoveredProgress
           /\ points' = IF draggingId = Null THEN points
                        ELSE MapId(ValueOf(draggingId), moved)
    /\ UNCHANGED <<nextId, image, selectedId, draggingId, alerts,
                   history>>
    /\ AfterSetPoints(draggingId # Null)


handleMouseUp ==
    /\ Event("mouseUp")
    /\ draggingId' = Null
    /\ UNCHANGED <<points, nextId, image, selectedId, hoveredId,
                   hoveredPathProgress, lastHoveredProgress, alerts,
                   history>>
    /\ AfterSetPoints(FALSE)


handleMouseLeave ==
    /\ Event("mouseLeave")
    /\ hoveredId' = Null
    /\ hoveredPathProgress' = Null
    /\ draggingId' = Null
    /\ UNCHANGED <<points, nextId, image, selectedId, lastHoveredProgress,
                   alerts,
                   history>>
    /\ AfterSetPoints(FALSE)


\* the Delete or Backspace key; canvasFocused is document.activeElement === canvas
handleKeyDown(canvasFocused) ==
    /\ Event("keyDown")
    /\ IF selectedId # Null /\ canvasFocused
       THEN /\ points' = SelectSeq(points, LAMBDA p : p.id # ValueOf(selectedId))
            /\ selectedId' = Null
       ELSE UNCHANGED <<points, selectedId>>
    /\ UNCHANGED <<nextId, image, draggingId, hoveredId, hoveredPathProgress,
                   lastHoveredProgress, alerts,
                   history>>
    /\ AfterSetPoints(selectedId # Null /\ canvasFocused)


\* Math.max(...importedPoints.map(p => p.id), -1)
RECURSIVE MaxIdFrom(_, _)
MaxIdFrom(pts, m) ==
    IF pts = << >> THEN m ELSE MaxIdFrom(Tail(pts), Max2(Head(pts).id, m))

IdsOf(pts) == {pts[i].id : i \in 1..Len(pts)}

\* JSON.parse returned and Array.isArray(importedPoints) holds
ImportAcceptedUnchecked(payload) == payload.kind # "malformed"
ImportAccepted(payload) == payload.kind = "array"

\* maxId + 1
NextIdAfterImportCount(pts) == Len(pts)
NextIdAfterImport(pts) == MaxIdFrom(pts, -1) + 1

\* reader.onload of the route import
ImportRoute(payload) ==
    /\ Event(IF payload.kind = "array" THEN "import"
             ELSE IF payload.kind = "malformed" THEN "importMalformed"
             ELSE "importNonArray")
    /\ IF payload.kind = "malformed"
       THEN \* JSON.parse throws: alert('Failed to parse JSON file')
            /\ alerts' = alerts + 1
            /\ UNCHANGED <<points, selectedId, nextId, history>>
       ELSE IF ImportAccepted(payload)
       THEN /\ points' = payload.pts
            /\ selectedId' = Null
            /\ nextId' = NextIdAfterImport(payload.pts)
            /\ heldIds' = heldIds \union IdsOf(payload.pts)
            /\ heldSinceImport' = IdsOf(payload.pts)
            /\ UNCHANGED alerts
       ELSE UNCHANGED <<points, selectedId, nextId, alerts, history>>
    /\ UNCHANGED <<image, draggingId, hoveredId, hoveredPathProgress,
                   lastHoveredProgress>>
    /\ AfterSetPoints(payload.kind # "malformed" /\ ImportAccepted(payload))


\* a click on a row of the point list
PointItemClick(index) ==
    /\ Event("pointItem")
    /\ index \in Indices
    /\ selectedId' = Some(Pt(index).id)
    /\ UNCHANGED <<points, nextId, image, draggingId, hoveredId,
                   hoveredPathProgress, lastHoveredProgress, alerts,
                   history>>
    /\ AfterSetPoints(FALSE)


\* points.map(p => ({...p, fieldY: -p.fieldY,
\*                   y: -p.y + (image ? image.height : 0)}))
FlippedXSameSign(pts) ==
    [i \in 1..Len(pts) |->
       [pts[i] EXCEPT
          !.fieldY = -pts[i].fieldY,
          !.y = pts[i].y + (IF image.loaded
                            THEN image.height * UnitsPerPixel ELSE 0)]]
FlippedX(pts) ==
    [i \in 1..Len(pts) |->
       [pts[i] EXCEPT
          !.fieldY = -pts[i].fieldY,
          !.y = -pts[i].y + (IF image.loaded
                             THEN image.height * UnitsPerPixel ELSE 0)]]

FlipX ==
    /\ Event("flipX")
    /\ points' = FlippedX(points)
    /\ UNCHANGED <<nextId, image, selectedId, draggingId, hoveredId,
                   hoveredPathProgress, lastHoveredProgress, alerts,
                   history>>
    /\ AfterSetPoints(TRUE)


\* points.map(p => ({...p, fieldX: -p.fieldX,
\*                   x: -p.x + (image ? image.width : 0)}))
FlippedY(pts) ==
    [i \in 1..Len(pts) |->
       [pts[i] EXCEPT
          !.fieldX = -pts[i].fieldX,
          !.x = -pts[i].x + (IF image.loaded
                             THEN image.width * UnitsPerPixel ELSE 0)]]

FlipY ==
    /\ Event("flipY")
    /\ points' = FlippedY(points)
    /\ UNCHANGED <<nextId, image, selectedId, draggingId, hoveredId,
                   hoveredPathProgress, lastHoveredProgress, alerts,
                   history>>
    /\ AfterSetPoints(TRUE)


\* the previous and next buttons of the edit panel
PreviousPoint ==
    /\ Event("previous")
    /\ selectedId # Null
    /\ LET index == FindIndex(ValueOf(selectedId))
       IN  selectedId' = Some(IF index > 0 THEN index - 1 ELSE NumPoints - 1)
    /\ UNCHANGED <<points, nextId, image, draggingId, hoveredId,
                   hoveredPathProgress, lastHoveredProgress, alerts,
                   history>>
    /\ AfterSetPoints(FALSE)


NextPoint ==
    /\ Event("next")
    /\ selectedId # Null
    /\ LET index == FindIndex(ValueOf(selectedId))
       IN  selectedId' = Some(IF index < NumPoints - 1 THEN index + 1 ELSE 0)
    /\ UNCHANGED <<points, nextId, image, draggingId, hoveredId,
                   hoveredPathProgress, lastHoveredProgress, alerts,
                   history>>
    /\ AfterSetPoints(FALSE)


(***************************************************************************)
(* Edit panel: rendered when selectedPoint is defined.                     *)
(***************************************************************************)
HasSelectedPoint == selectedId # Null /\ FindIndex(ValueOf(selectedId)) # -1
selectedPoint == Pt(FindIndex(ValueOf(selectedId)))

updateSelectedPointFieldCoords(fieldX, fieldY) ==
    IF selectedId = Null THEN points
    ELSE LET px == fieldToPixelCoords(fieldX, fieldY)
             placed == [p \in Waypoints |->
                          [p EXCEPT !.x = px.x, !.y = px.y,
                                    !.fieldX = fieldX, !.fieldY = fieldY]]
         IN  MapId(ValueOf(selectedId), placed)

EditX(input) ==
    /\ Event("editX")
    /\ HasSelectedPoint
    /\ LET v == NumberInput(selectedPoint.fieldX, FieldMin * RoundScale, Null,
                            FieldStep * RoundScale, FALSE, input)
       IN  points' = IF v = Null THEN points
                     ELSE updateSelectedPointFieldCoords(ValueOf(v),
                                                         selectedPoint.fieldY)
    /\ UNCHANGED <<nextId, image, selectedId, draggingId, hoveredId,
                   hoveredPathProgress, lastHoveredProgress, alerts,
                   history>>
    /\ AfterSetPoints(TRUE)


EditY(input) ==
    /\ Event("editY")
    /\ HasSelectedPoint
    /\ LET v == NumberInput(selectedPoint.fieldY, FieldMin * RoundScale, Null,
                            FieldStep * RoundScale, FALSE, input)
       IN  points' = IF v = Null THEN points
                     ELSE updateSelectedPointFieldCoords(selectedPoint.fieldX,
                                                         ValueOf(v))
    /\ UNCHANGED <<nextId, image, selectedId, draggingId, hoveredId,
                   hoveredPathProgress, lastHoveredProgress, alerts,
                   history>>
    /\ AfterSetPoints(TRUE)


\* selectedId === points[points.length - 1].id
IsLastPoint == selectedId # Null /\ ValueOf(selectedId) = Pt(NumPoints - 1).id

EditTheta(input) ==
    /\ Event("editTheta")
    /\ HasSelectedPoint
    /\ LET setTheta(t) ==
               MapId(ValueOf(selectedId),
                     [p \in Waypoints |-> [p EXCEPT !.theta = t]])
           v == NumberInput(getEffectiveTheta(FindIndex(ValueOf(selectedId))),
                            0, Some(ThetaMax), ThetaStep, ~IsLastPoint, input)
       IN  points' = IF v # Null /\ IsLastPoint THEN setTheta(ValueOf(v))
                     ELSE points
    /\ UNCHANGED <<nextId, image, selectedId, draggingId, hoveredId,
                   hoveredPathProgress, lastHoveredProgress, alerts,
                   history>>
    /\ AfterSetPoints(IsLastPoint)


EditTimeout(input) ==
    /\ Event("editTimeout")
    /\ HasSelectedPoint
    /\ LET v == NumberInput(selectedPoint.timeout, 0, Null, TimeoutStep,
                            FALSE, input)
           with == [p \in Waypoints |-> [p EXCEPT !.timeout = ValueOf(v)]]
       IN  points' = MapId(ValueOf(selectedId), with)
    /\ UNCHANGED <<nextId, image, selectedId, draggingId, hoveredId,
                   hoveredPathProgress, lastHoveredProgress, alerts,
                   history>>
    /\ AfterSetPoints(TRUE)


EditSpeed(input) ==
    /\ Event("editSpeed")
    /\ HasSelectedPoint
    /\ LET v == NumberInput(selectedPoint.speed, SpeedMin, Some(SpeedMax),
                            SpeedStep, FALSE, input)
           with == [p \in Waypoints |-> [p EXCEPT !.speed = ValueOf(v)]]
       IN  points' = MapId(ValueOf(selectedId), with)
    /\ UNCHANGED <<nextId, image, selectedId, draggingId, hoveredId,
                   hoveredPathProgress, lastHoveredProgress, alerts,
                   history>>
    /\ AfterSetPoints(TRUE)


\* the Backwards and Forwards buttons; the one that is in effect is disabled
SetForwards(b) ==
    /\ Event("setForwards")
    /\ HasSelectedPoint
    /\ selectedPoint.forwards # b
    /\ LET with == [p \in Waypoints |-> [p EXCEPT !.forwards = b]]
       IN  points' = MapId(ValueOf(selectedId), with)
    /\ UNCHANGED <<nextId, image, selectedId, draggingId, hoveredId,
                   hoveredPathProgress, lastHoveredProgress, alerts,
                   history>>
    /\ AfterSetPoints(TRUE)


\* a click on a line of the code preview, item being the clicked line
CodeLineClick ==
    \E lines \in {generatedCodeLines} :
        \E i \in 1 .. Len(lines) :
          LET item == lines[i]
          IN  /\ Event(IF item = SeparatorLine THEN "separatorLine"
                       ELSE "codeLine")
              /\ IF item.pointIndex = Null
                 THEN UNCHANGED <<selectedId, errors>>
                 ELSE IF ValueOf(item.pointIndex) \in Indices
                 THEN /\ selectedId' = Some(Pt(ValueOf(item.pointIndex)).id)
                      /\ UNCHANGED errors
                 ELSE \* points[item.pointIndex] is undefined: reading its
                      \* id throws a TypeError out of the handler
                      /\ errors' = errors + 1
                      /\ UNCHANGED selectedId
              /\ UNCHANGED <<points, nextId, image, draggingId, hoveredId,
                             hoveredPathProgress, lastHoveredProgress,
                             alerts, history, clock, resumedFrom,
                             published>>

(***************************************************************************)
(* Simulation clock.                                                       *)
(***************************************************************************)
SliderValues == {50, 100}
FrameDelays == {400, 1000}

\* the progress slider
Slider(v) ==
    /\ Event("slider")
    /\ robotProgress' = v
    /\ UNCHANGED <<points, nextId, image, selectedId, draggingId, hoveredId,
                   hoveredPathProgress, lastHoveredProgress, alerts,
                   history, isRunning, showBot, rafRef, frames, now, errors,
                   resumedFrom, published>>

\* the Show Bot checkbox
ShowBotCheckbox ==
    /\ Event("showBot")
    /\ showBot' = ~showBot
    /\ UNCHANGED <<points, nextId, image, selectedId, draggingId, hoveredId,
                   hoveredPathProgress, lastHoveredProgress, alerts,
                   history, isRunning, robotProgress, rafRef, frames, now,
                   errors, resumedFrom, published>>

\* if (robotProgress >= 1) setRobotProgress(0)
ProgressAtStartKept(progress) == progress
ProgressAtStart(progress) ==
    IF progress >= ProgressScale THEN 0 ELSE progress

\* the Run / Pause button, and the simulation effect of the render it causes
RunPause ==
    /\ Event(IF isRunning THEN "pause"
             ELSE IF robotProgress >= ProgressScale THEN "restart"
             ELSE "start")
    /\ IF ~isRunning
       THEN /\ robotProgress' = ProgressAtStart(robotProgress)
            /\ showBot' = TRUE
            /\ SimulationEffect(TRUE, points, frames)
       ELSE /\ SimulationEffect(FALSE, points, frames)
            /\ UNCHANGED <<robotProgress, showBot>>
    /\ resumedFrom' = IF isRunning' THEN Some(robotProgress') ELSE Null
    /\ published' = Null
    /\ UNCHANGED <<points, nextId, image, selectedId, draggingId, hoveredId,
                   hoveredPathProgress, lastHoveredProgress, alerts,
                   history, now, errors>>

getProgressFromElapsedTime(elapsedMs) ==
    IF NumPoints < 2 THEN 0
    ELSE IF getTotalSimulationDuration > 0
    THEN Min2(ProgressScale,
              (elapsedMs * ProgressScale) \div getTotalSimulationDuration)
    ELSE 0

\* if (progress >= 1): the step stops the run instead of asking for the
\* next frame
ReachedEndStrict(progress) == progress > ProgressScale
ReachedEnd(progress) == progress >= ProgressScale

\* setShowBot(false) when the end is reached
ShowBotAtEndKept == showBot
ShowBotAtEnd == FALSE

\* the browser runs an animation frame callback, step, delay ms after the
\* latest event
Frame(delay) ==
    /\ Event("frame")
    /\ \E f \in frames :
         LET time == now + delay
             progress == getProgressFromElapsedTime(time - f.startTime)
             held == frames \ {f}
         IN  /\ now' = time
             /\ robotProgress' = progress
             /\ published' = IF ReachedEnd(progress) THEN Null
                              ELSE Some(progress)
             /\ IF ReachedEnd(progress)
                THEN /\ showBot' = ShowBotAtEnd
                     /\ IF isRunning
                        THEN SimulationEffect(FALSE, points, held)
                        ELSE /\ frames' = held
                             /\ UNCHANGED <<isRunning, rafRef>>
                ELSE /\ frames' = held \union
                                    {[id |-> NewFrameId(held),
                                      startTime |-> f.startTime]}
                     /\ rafRef' = Some(NewFrameId(held))
                     /\ UNCHANGED <<isRunning, showBot>>
    /\ resumedFrom' = Null
    /\ UNCHANGED <<points, nextId, image, selectedId, draggingId, hoveredId,
                   hoveredPathProgress, lastHoveredProgress, alerts,
                   history, errors>>

\* the progress the canvas samples the drawn robot at
displayProgress ==
    IF hoveredPathProgress # Null THEN ValueOf(hoveredPathProgress)
    ELSE IF ~isRunning /\ lastHoveredProgress # 0 THEN lastHoveredProgress
    ELSE robotProgress
Next ==
    \/ LoadImage
    \/ \E m \in MousePositions : handleCanvasClick(m)
    \/ \E m \in MousePositions : handleMouseDown(m)
    \/ \E m \in MousePositions : handleMouseMove(m)
    \/ handleMouseUp
    \/ handleMouseLeave
    \/ \E canvasFocused \in BOOLEAN : handleKeyDown(canvasFocused)
    \/ \E payload \in ImportPayloads : ImportRoute(payload)
    \/ \E index \in 0 .. (MaxPoints - 1) : PointItemClick(index)
    \/ FlipX
    \/ FlipY
    \/ PreviousPoint
    \/ NextPoint
    \/ \E input \in FieldInputs : EditX(input)
    \/ \E input \in FieldInputs : EditY(input)
    \/ \E input \in ThetaInputs : EditTheta(input)
    \/ \E input \in TimeoutInputs : EditTimeout(input)
    \/ \E input \in SpeedInputs : EditSpeed(input)
    \/ \E b \in BOOLEAN : SetForwards(b)
    \/ CodeLineClick

Spec == Init /\ [][Next]_vars

(***************************************************************************)
(* The simulation clock with the operations that change what it reads:     *)
(* the waypoints and their timeouts.                                       *)
(***************************************************************************)
ClockInit ==
    /\ Mounted
    /\ budget = MaxClockSteps

ClockNext ==
    \/ \E payload \in ImportPayloads : ImportRoute(payload)
    \/ \E index \in 0 .. (MaxPoints - 1) : PointItemClick(index)
    \/ \E canvasFocused \in BOOLEAN : handleKeyDown(canvasFocused)
    \/ \E input \in TimeoutInputs : EditTimeout(input)
    \/ \E v \in SliderValues : Slider(v)
    \/ ShowBotCheckbox
    \/ RunPause
    \/ \E delay \in FrameDelays : Frame(delay)

ClockSpec == ClockInit /\ [][ClockNext]_vars

(***************************************************************************)
(* The operations that change the path's geometry, for the statements      *)
(* about the proximity projector.                                          *)
(***************************************************************************)
GeometryNext ==
    \/ LoadImage
    \/ \E m \in MousePositions : handleCanvasClick(m)
    \/ \E m \in MousePositions : handleMouseDown(m)
    \/ \E m \in MousePositions : handleMouseMove(m)
    \/ handleMouseUp
    \/ \E canvasFocused \in BOOLEAN : handleKeyDown(canvasFocused)
    \/ \E payload \in ImportPayloads : ImportRoute(payload)
    \/ FlipX
    \/ FlipY

GeometrySpec == Init /\ [][GeometryNext]_vars

(***************************************************************************)
(* The edit panel with the operations that fill the store and choose the   *)
(* waypoint it edits, for the statements about the values entered in it    *)
(* and about the code emitted from them.                                   *)
(***************************************************************************)
PanelNext ==
    \/ LoadImage
    \/ \E m \in MousePositions : handleCanvasClick(m)
    \/ \E canvasFocused \in BOOLEAN : handleKeyDown(canvasFocused)
    \/ \E payload \in ImportPayloads : ImportRoute(payload)
    \/ \E index \in 0 .. (MaxPoints - 1) : PointItemClick(index)
    \/ \E input \in ThetaInputs : EditTheta(input)
    \/ \E input \in TimeoutInputs : EditTimeout(input)
    \/ \E input \in SpeedInputs : EditSpeed(input)
    \/ \E b \in BOOLEAN : SetForwards(b)

PanelSpec == Init /\ [][PanelNext]_vars

(***************************************************************************)
(* A run of the clock left to itself: the route is set up while the clock  *)
(* is idle (the first MaxRunSetup events), and from Run on nothing but the *)
(* browser's animation frames happens.  The browser runs a requested       *)
(* animation frame callback as long as the page is shown: weak fairness    *)
(* of Frame.                                                               *)
(***************************************************************************)
RunInit ==
    /\ Mounted
    /\ budget = MaxRunSteps

RunSetup == ~isRunning /\ steps < MaxRunSetup

RunNext ==
    \/ RunSetup /\ \E payload \in ImportPayloads : ImportRoute(payload)
    \/ RunSetup /\ \E index \in 0 .. (MaxPoints - 1) : PointItemClick(index)
    \/ RunSetup /\ \E input \in TimeoutInputs : EditTimeout(input)
    \/ RunSetup /\ RunPause
    \/ \E delay \in FrameDelays : Frame(delay)

RunFairness == WF_vars(\E delay \in FrameDelays : Frame(delay))

RunSpec == RunInit /\ [][RunNext]_vars /\ RunFairness

(***************************************************************************)
(* Properties.                                                             *)
(***************************************************************************)
PathDefined == NumPoints >= 2 /\ TotalLength > 0
LastPt == Pt(NumPoints - 1)
InvalidImports == {"importMalformed", "importNonArray"}

\* C1: with a field image loaded, every waypoint's cached screen position
\* (x, y) equals fieldToPixelCoords of its stored field position, in every
\* reachable state
C1_ScreenPositionSynchronized ==
    image.loaded =>
      \A i \in Indices :
         /\ Pt(i).x = fieldToPixelCoords(Pt(i).fieldX, Pt(i).fieldY).x
         /\ Pt(i).y = fieldToPixelCoords(Pt(i).fieldX, Pt(i).fieldY).y

\* C2: no two waypoints of the store have the same id
C2_UniqueIds ==
    \A i \in Indices : \A j \in Indices : Pt(i).id = Pt(j).id => i = j

\* C3 as stated: the id a placement assigns is greater than every id any
\* waypoint has held earlier in the session, imports included
C3_NeverReusedInSession ==
    [][lastOp' = "place" => \A id \in heldIds : nextId > id]_vars

\* C3 as amended: the id a placement assigns is greater than every id a
\* waypoint has held since the latest import (the imported waypoints
\* included), also after deletes
C3_NeverReusedSinceImport ==
    [][lastOp' = "place" =>
         /\ points'[Len(points')].id = nextId
         /\ \A id \in heldSinceImport : nextId > id
         /\ \A i \in Indices : nextId > Pt(i).id]_vars

\* a placement made after a delete: more ids have been held than there are
\* waypoints
C3_Witness ==
    /\ lastOp = "place"
    /\ NumPoints >= 2
    /\ Cardinality(heldSinceImport) > NumPoints

\* C4: an import of a malformed payload or of a payload whose root is not a
\* sequence leaves the waypoints, the next-id counter and the selection as
\* they were
C4_FailedImportKeepsState ==
    [][lastOp' \in InvalidImports =>
         /\ points' = points
         /\ nextId' = nextId
         /\ selectedId' = selectedId]_vars

\* a failed import on a store that holds a selected waypoint
C4_Witness ==
    /\ lastOp = "importNonArray"
    /\ NumPoints >= 1
    /\ selectedId # Null
    /\ nextId >= 1

\* C5: every invalid import, malformed or with a root that is not a
\* sequence, is reported to the user
C5_InvalidImportReported ==
    [][lastOp' \in InvalidImports => alerts' = alerts + 1]_vars

\* C6: the effective heading of every waypoint, the last one included, is
\* in [0, 360)
C6_HeadingInRange ==
    \A i \in Indices :
       getEffectiveTheta(i) >= 0 /\ getEffectiveTheta(i) < FullTurn

\* C7: a waypoint that is not the last has effective heading 0 when its
\* successor is directly above it on the screen, 90 when directly right,
\* 180 when directly below, 270 when directly left
C7_CardinalHeadings ==
    \A i \in 0 .. (NumPoints - 2) :
       /\ (SegDx(i) = 0 /\ SegDy(i) < 0) => getEffectiveTheta(i) = 0
       /\ (SegDy(i) = 0 /\ SegDx(i) > 0) => getEffectiveTheta(i) = QuarterTurn
       /\ (SegDx(i) = 0 /\ SegDy(i) > 0) => getEffectiveTheta(i) = 2 * QuarterTurn
       /\ (SegDy(i) = 0 /\ SegDx(i) < 0) => getEffectiveTheta(i) = 3 * QuarterTurn

\* a path that goes directly up and then directly right
C7_Witness ==
    /\ NumPoints = 3
    /\ SegDx(0) = 0 /\ SegDy(0) < 0
    /\ SegDy(1) = 0 /\ SegDx(1) > 0

\* C8: on every path with at least 2 waypoints and a total length above 0,
\* the sample at progress 0 is the first waypoint's screen position
C8_SampleAtZero ==
    PathDefined =>
      LET s == getRobotPositionAndRotation(0)
      IN  s.robot /\ ~s.nan /\ s.x = Pt(0).x /\ s.y = Pt(0).y

\* C9: on every such path the sample at progress 1 is the last waypoint's
\* screen position with the rotation of its stored heading, theta - 90
C9_SampleAtOne ==
    PathDefined =>
      LET s == getRobotPositionAndRotation(ProgressScale)
      IN  /\ s.robot /\ ~s.nan
          /\ s.x = LastPt.x /\ s.y = LastPt.y
          /\ s.rotation = LastPt.theta - QuarterTurn

\* the progress values the sampler is examined at
ProgressSamples == {0, 10, 25, 50, 75, 100}

\* the distance along the polyline from the path start to a sampled position
SampleDistance(s) ==
    DistanceBefore(s.segment)
      + Hypot(s.x - Pt(s.segment).x, s.y - Pt(s.segment).y)

\* C10: for progress values p1 < p2 the distance along the path to the
\* sample at p1 is at most that to the sample at p2, and at a progress that
\* falls on the boundary of two segments the sample is the shared waypoint
C10_SamplerMonotonic ==
    PathDefined =>
      /\ \A p1 \in ProgressSamples : \A p2 \in ProgressSamples :
            p1 < p2 =>
              LET s1 == getRobotPositionAndRotation(p1)
                  s2 == getRobotPositionAndRotation(p2)
              IN  /\ ~s1.nan /\ ~s2.nan
                  /\ SampleDistance(s1) <= SampleDistance(s2)
      /\ \A p \in ProgressSamples : \A k \in 1 .. (NumPoints - 2) :
            TotalLength * p = DistanceBefore(k) * ProgressScale =>
              LET s == getRobotPositionAndRotation(p)
              IN  ~s.nan /\ s.x = Pt(k).x /\ s.y = Pt(k).y

\* C11: with 0 or 1 waypoints in the store the sampler returns "no robot"
\* at every progress, the projector returns none for every query point, the
\* total duration is 0 and the code emitter returns no line for the empty
\* store and the one set-pose line of the only waypoint otherwise
C11_EmptyStoreDefined ==
    NumPoints < 2 =>
      /\ \A p \in ProgressSamples : ~getRobotPositionAndRotation(p).robot
      /\ \A m \in MousePositions : getClosestPointOnPath(m.x, m.y) = Null
      /\ getTotalSimulationDuration = 0
      /\ LET lines == generatedCodeLines
         IN  /\ Len(lines) = NumPoints
             /\ \A i \in 1 .. Len(lines) :
                   /\ lines[i].pointIndex = Some(0)
                   /\ lines[i].line =
                        << "chassis.setPose", Pt(0).fieldX, Pt(0).fieldY,
                           Pt(0).theta * RoundScale >>

\* a store that a delete has brought back to one waypoint
C11_Witness ==
    /\ lastOp = "keyDown"
    /\ NumPoints = 1
    /\ Cardinality(heldSinceImport) >= 2

\* the distance from a query point to segment i, a segment of length 0
\* being its one point
QueryDistance(i, m) == ClosestOnSegment(i, m.x, m.y).distance

\* C12: the projector returns none for every query point that is farther
\* than 50 screen pixels from every segment, whenever the store has fewer
\* than 2 waypoints and whenever the total path length is 0; stated by its
\* contrapositive: a result other than none is given only on a path of 2
\* or more waypoints and a length above 0 that has a segment within 50
\* pixels of the query point
C12_ProjectorNone ==
    \A m \in MousePositions :
       getClosestPointOnPath(m.x, m.y) # Null =>
         /\ NumPoints >= 2
         /\ TotalLength > 0
         /\ \E i \in 0 .. (NumPoints - 2) :
               QueryDistance(i, m) <= HoverThreshold * UnitsPerPixel

\* a path with a query point beyond the threshold and one within it
C12_Witness ==
    /\ PathDefined
    /\ \E m \in MousePositions :
          /\ \A i \in 0 .. (NumPoints - 2) :
                QueryDistance(i, m) > HoverThreshold * UnitsPerPixel
          /\ getClosestPointOnPath(m.x, m.y) = Null
    /\ \E m \in MousePositions : getClosestPointOnPath(m.x, m.y) # Null

\* the sum of the timeouts of a sequence of waypoints
RECURSIVE SumTimeouts(_)
SumTimeouts(pts) ==
    IF pts = << >> THEN 0 ELSE Head(pts).timeout + SumTimeouts(Tail(pts))

\* timeouts the first waypoint is given in C13
FirstTimeouts == {0, 500, 7000}

\* C13: the total simulated duration is the sum of the timeouts of every
\* waypoint but the first, and stays the same whatever timeout the first
\* waypoint is given
C13_DurationExcludesFirst ==
    /\ NumPoints = 0 => getTotalSimulationDuration = 0
    /\ NumPoints >= 1 =>
         /\ getTotalSimulationDuration = SumTimeouts(Tail(points))
         /\ \A t \in FirstTimeouts :
               TotalDurationOf([points EXCEPT ![1].timeout = t])
                 = getTotalSimulationDuration

\* three waypoints whose first has a timeout of its own
C13_Witness ==
    /\ NumPoints = 3
    /\ Pt(0).timeout > 0
    /\ Pt(0).timeout # Pt(1).timeout

StartOps == {"start", "restart"}

\* C14: Run pressed while the clock is idle sets it running only if the
\* total duration is above 0; with a total duration of 0 the clock stays
\* idle and the user is told that the route cannot run
C14_StartNeedsDuration ==
    [][lastOp' \in StartOps =>
         IF getTotalSimulationDuration > 0 THEN isRunning'
         ELSE ~isRunning' /\ alerts' = alerts + 1]_vars

\* C15: Pause leaves the clock idle with the progress it had, and the
\* first progress a frame publishes after Run was pressed at a progress
\* below 1 is not lower than that progress
C15_ResumeContinues ==
    [][/\ lastOp' = "pause" => ~isRunning' /\ robotProgress' = robotProgress
       /\ (lastOp' = "frame" /\ resumedFrom # Null) =>
             robotProgress' >= ValueOf(resumedFrom)]_vars

\* C16: at most one animation frame callback is scheduled, none is
\* scheduled while the clock is idle, and a callback runs only while the
\* clock is running
C16_SingleCallback ==
    [][/\ Cardinality(frames') <= 1
       /\ ~isRunning' => frames' = {}
       /\ lastOp' = "frame" => isRunning]_vars

\* the clock paused after a frame has published progress
C16_Witness ==
    /\ lastOp = "pause"
    /\ ~isRunning
    /\ frames = {}
    /\ robotProgress > 0
    /\ robotProgress < ProgressScale

\* C17: a frame callback that computes a progress of 1 or more while the
\* clock is running leaves the clock idle, schedules no callback and
\* clears the "show robot" flag
C17_EndStopsAndHides ==
    [][(lastOp' = "frame" /\ isRunning /\ robotProgress' >= ProgressScale) =>
         /\ ~isRunning'
         /\ frames' = {}
         /\ ~showBot']_vars

\* a run that has reached the end
C17_Witness ==
    /\ lastOp = "frame"
    /\ robotProgress = ProgressScale
    /\ ~isRunning
    /\ ~showBot

\* C18: Run pressed while the clock is idle and the progress is 1 or more
\* sets the progress to 0, and the clock runs from there
C18_RestartFromZero ==
    [][(lastOp' \in StartOps /\ ~isRunning /\ robotProgress >= ProgressScale)
         => /\ robotProgress' = 0
            /\ getTotalSimulationDuration > 0 => isRunning']_vars

\* a run started again after it had reached the end
C18_Witness ==
    /\ lastOp = "restart"
    /\ isRunning
    /\ robotProgress = 0
    /\ frames # {}

\* C19: every emitted separator line has no source waypoint index, and no
\* click on a code line has failed
C19_SeparatorsUnmapped ==
    LET lines == generatedCodeLines
    IN  /\ \A i \in 1 .. Len(lines) :
              lines[i].line = << "\n" >> => lines[i].pointIndex = Null
        /\ errors = 0

\* the turn and the move line of waypoint index >= 1 among the lines
TurnLineOf(lines, index) == lines[3 * index]
MoveLineOf(lines, index) == lines[3 * index + 1]

\* C20 as stated: for every waypoint after the first, the turn line and
\* the move line both carry the waypoint's timeout, direction and speed
C20_BothLinesCarryOwn ==
    LET lines == generatedCodeLines
    IN  \A index \in 1 .. (NumPoints - 1) :
           /\ TurnLineOf(lines, index).line[1] = "chassis.turnToPoint"
           /\ MoveLineOf(lines, index).line[1] = "chassis.moveToPoint"
           /\ SubSeq(TurnLineOf(lines, index).line, 4, 6)
                = << Pt(index).timeout, Pt(index).forwards, Pt(index).speed >>
           /\ SubSeq(MoveLineOf(lines, index).line, 4, 6)
                = << Pt(index).timeout, Pt(index).forwards, Pt(index).speed >>

\* C20 as amended: the move line carries the waypoint's timeout, direction
\* and speed; the turn line carries its direction and speed with the fixed
\* turn timeout of 500 ms
C20_MoveCarriesOwnTurnFixed ==
    LET lines == generatedCodeLines
    IN  \A index \in 1 .. (NumPoints - 1) :
           /\ TurnLineOf(lines, index).line[1] = "chassis.turnToPoint"
           /\ MoveLineOf(lines, index).line[1] = "chassis.moveToPoint"
           /\ SubSeq(TurnLineOf(lines, index).line, 4, 6)
                = << TurnTimeout, Pt(index).forwards, Pt(index).speed >>
           /\ SubSeq(MoveLineOf(lines, index).line, 4, 6)
                = << Pt(index).timeout, Pt(index).forwards, Pt(index).speed >>

\* a waypoint after the first whose timeout has been edited
C20_Witness ==
    /\ NumPoints >= 2
    /\ \E index \in 1 .. (NumPoints - 1) :
          Pt(index).timeout \notin {TurnTimeout, DefaultTimeout}

\* C21: for n >= 1 waypoints the emitter returns 1 + 3 * (n - 1) lines in
\* waypoint order: the set-pose line of waypoint 0 with its field x, y
\* and its effective heading, all to one decimal, then for every later
\* waypoint i a separator, a turn line and a move line for waypoint i's
\* position, both mapped to index i; for no waypoint it returns no line
C21_EmittedLines ==
    LET lines == generatedCodeLines
    IN  IF NumPoints = 0 THEN lines = << >>
        ELSE /\ Len(lines) = 1 + 3 * (NumPoints - 1)
             /\ lines[1].line = << "chassis.setPose", Pt(0).fieldX,
                                   Pt(0).fieldY,
                                   getEffectiveTheta(0) * RoundScale >>
             /\ lines[1].pointIndex = Some(0)
             /\ \A index \in 1 .. (NumPoints - 1) :
                   /\ lines[3 * index - 1].line = << "\n" >>
                   /\ TurnLineOf(lines, index).pointIndex = Some(index)
                   /\ MoveLineOf(lines, index).pointIndex = Some(index)
                   /\ SubSeq(TurnLineOf(lines, index).line, 1, 3)
                        = << "chassis.turnToPoint", Pt(index).fieldX,
                             Pt(index).fieldY >>
                   /\ SubSeq(MoveLineOf(lines, index).line, 1, 3)
                        = << "chassis.moveToPoint", Pt(index).fieldX,
                             Pt(index).fieldY >>

\* three waypoints, the first of which stores a heading that is not its
\* effective heading
C21_Witness ==
    /\ NumPoints = 3
    /\ Len(generatedCodeLines) = 7
    /\ getEffectiveTheta(0) # Pt(0).theta

\* C22: every waypoint's fieldX and fieldY lie in [-72, 72]
C22_FieldInRange ==
    \A i \in Indices :
       /\ Abs(Pt(i).fieldX) <= (fieldInchSize \div 2) * RoundScale
       /\ Abs(Pt(i).fieldY) <= (fieldInchSize \div 2) * RoundScale

\* the number an input asks for, and the bound of [low, high] nearest to it
Requested(value, step, input) ==
    IF input.kind = "typed" THEN input.num
    ELSE IF input.kind = "minus" THEN value - step
    ELSE value + step
Nearest(v, low, high) ==
    IF v < low THEN low
    ELSE IF high # Null /\ v > ValueOf(high) THEN ValueOf(high)
    ELSE v

\* C23: every stored speed is in [1, 127] and every stored timeout is at
\* least 0, and what the speed and the timeout input hand on for an entry,
\* typed or stepped, is the entry itself when it is in range and the
\* nearest bound when it is not: never nothing
C23_ClampedAtEntry ==
    \A i \in Indices :
       /\ Pt(i).speed >= SpeedMin
       /\ Pt(i).speed <= SpeedMax
       /\ Pt(i).timeout >= 0
       /\ \A input \in SpeedInputs :
             NumberInput(Pt(i).speed, SpeedMin, Some(SpeedMax), SpeedStep,
                         FALSE, input)
               = Some(Nearest(Requested(Pt(i).speed, SpeedStep, input),
                              SpeedMin, Some(SpeedMax)))
       /\ \A input \in TimeoutInputs :
             NumberInput(Pt(i).timeout, 0, Null, TimeoutStep, FALSE, input)
               = Some(Nearest(Requested(Pt(i).timeout, TimeoutStep, input),
                              0, Null))

\* a speed of 200 has been typed and is stored as 127, beside a timeout
\* that was typed as -5 and is stored as 0
C23_Witness ==
    /\ lastOp = "editSpeed"
    /\ HasSelectedPoint
    /\ selectedPoint.speed = SpeedMax
    /\ selectedPoint.timeout = 0

FieldSamples == {-720, -355, -1, 0, 18, 300, 720}
PixelSamples ==
    {0, 7, 10 * UnitsPerPixel, MouseCenter, MouseCenter + UnitsPerPixel,
     MouseCenter + GridStep, ImageWidth * UnitsPerPixel}

WithoutIndex(pts, index) ==
    SubSeq(pts, 1, index) \o SubSeq(pts, index + 2, Len(pts))

\* C26: a delete removes the selected waypoint and no other: the waypoints
\* that stay keep their fields and their order, the next-id counter is
\* unchanged and the selection is cleared
C26_DeleteRemovesSelected ==
    [][(lastOp' = "keyDown"
        /\ (points' # points \/ selectedId' # selectedId)) =>
       /\ selectedId # Null
       /\ selectedId' = Null
       /\ nextId' = nextId
       /\ points' = IF HasSelectedPoint
                    THEN WithoutIndex(points,
                                      FindIndex(ValueOf(selectedId)))
                    ELSE points]_vars

\* C27: the selection is empty or the id of a waypoint in the store
C27_SelectionInStore ==
    selectedId = Null \/ ValueOf(selectedId) \in IdsOf(points)

\* C28: while the clock stays running, a frame publishes a progress that
\* is not less than the progress the frame before it published, whatever
\* was done to the waypoints between the two
C28_FramesNonDecreasing ==
    [][(lastOp' = "frame" /\ isRunning /\ published # Null) =>
       robotProgress' >= ValueOf(published)]_vars

\* C29: a running clock whose frames keep firing, with no stop and no
\* change of the waypoints, eventually publishes progress 1 and is idle
C29_RunCompletes ==
    (isRunning /\ getTotalSimulationDuration > 0)
       ~> (~isRunning /\ robotProgress = ProgressScale /\ lastOp = "frame")

\* a run of more than 1000 ms that took two frames or more has published
\* progress 1 and stopped, and the browser holds no callback
C29_Witness ==
    /\ lastOp = "frame"
    /\ ~isRunning
    /\ robotProgress = ProgressScale
    /\ frames = {}
    /\ now >= 1200
    /\ getTotalSimulationDuration > DefaultTimeout

\* C30: when the clock is idle and no hover projection is active, the
\* progress the drawn robot is sampled at is the clock's stored progress
C30_IdleShowsClockProgress ==
    (~isRunning /\ hoveredPathProgress = Null) =>
       displayProgress = robotProgress

=============================================================================
